---- MODULE Spec2Model ----
(***************************************************************************)
(* Model of product_catalogue_update_tool_v1.py: the token check, the      *)
(* hardware and software update loops over the worksheet rows, the report  *)
(* and the final save of the workbook.                                      *)
(***************************************************************************)
EXTENDS Integers, Sequences, FiniteSets, TLC

VARIABLES pc, now, token_file, token_file0, token, tokenRequests, tokenWrites,
          sheetnames, wb, wb0, s, i, count, updated_products, columns,
          reports, apiCalls, usable, api, saves

vars == <<pc, now, token_file, token_file0, token, tokenRequests, tokenWrites,
          sheetnames, wb, wb0, s, i, count, updated_products, columns,
          reports, apiCalls, usable, api, saves>>

(* ----------------------------- bounds ---------------------------------- *)
\* data rows below the title row in the sheet whose rows are varied
MaxRows == 3
\* value of scan_limit used by the model (5000 in the program)
MaxScan == 2
\* longest EOXRecord list the API answers with
MaxEntries == 2
\* clock values: time.time() and expires_at range over 0..MaxTime
MaxTime == 2

(* ------------------------- program constants --------------------------- *)
hw_sheet_name == "HW Product Catalogue"
sw_sheet_name == "SW Product Catalogue"
scan_limit == MaxScan

(* --------------------------- Python values ----------------------------- *)
\* A Python value held in a cell, a JSON field or a local variable.  A str is
\* either free text (txt) or three numbers joined by a separator, which is
\* the shape strptime/strftime work on: Triple("-", 2025, 1, 1) is
\* "2025-01-01" and Triple("/", 1, 1, 2025) is "01/01/2025".
Str(t) == [ty |-> "str", txt |-> t, sep |-> "", a |-> 0, b |-> 0, c |-> 0]
Triple(sp, x, y, z) == [ty |-> "str", txt |-> "", sep |-> sp, a |-> x, b |-> y, c |-> z]
False == [ty |-> "bool", txt |-> "", sep |-> "", a |-> 0, b |-> 0, c |-> 0]
None == [ty |-> "NoneType", txt |-> "", sep |-> "", a |-> 0, b |-> 0, c |-> 0]
DateTime(t) == [ty |-> "datetime", txt |-> "", sep |-> "", a |-> t, b |-> 0, c |-> 0]

\* a truth test that lets the blank cell (None) through
Truthy_blank_passes(v) == v.ty \in {"datetime", "NoneType"} \/ (v.ty = "str" /\ v # Str(""))

\* Python truth value: None, False and '' are falsy
Truthy(v) == v.ty = "datetime" \/ (v.ty = "str" /\ v # Str(""))

(* ------------------------------ format_date ---------------------------- *)
IsLeap(y) == (y % 4 = 0 /\ y % 100 # 0) \/ y % 400 = 0

DaysInMonth(y, m) ==
    IF m = 2 THEN (IF IsLeap(y) THEN 29 ELSE 28)
    ELSE IF m \in {4, 6, 9, 11} THEN 30 ELSE 31

\* datetime.strptime(v, '%Y-%m-%d') succeeds
Parses(v) ==
    /\ v.ty = "str"
    /\ v.sep = "-"
    /\ v.a \in 1..9999
    /\ v.b \in 1..12
    /\ v.c \in 1..DaysInMonth(v.a, v.b)

\* strptime raises TypeError, which format_date does not catch
format_date_raises(v) == v.ty # "str"

format_date(date_str) ==
    IF Parses(date_str) THEN Triple("/", date_str.c, date_str.b, date_str.a)
    ELSE date_str

(* ------------------------------ the EOX API ---------------------------- *)
Keys == {"LastDateOfSupport", "EndOfSWMaintenanceReleases", "EOXError"}

\* the JSON object stored under a field name of an EOXRecord entry
Item(v) == [value |-> v]

ItemsFor(k) ==
    IF k = "LastDateOfSupport" THEN {Item(Str("")), Item(Triple("-", 2025, 1, 1))}
    ELSE IF k = "EndOfSWMaintenanceReleases"
         THEN {Item(Str("")), Item(Triple("-", 2026, 6, 15))}
    ELSE {Item(Str("SSA_ERR_026"))}

AllItems == UNION {ItemsFor(k) : k \in Keys}

\* an entry is a dict; an error entry carries the marker alone or next to
\* both date fields
Entries ==
    {e \in UNION {[K -> AllItems] : K \in SUBSET Keys} :
        /\ \A k \in DOMAIN e : e[k] \in ItemsFor(k)
        /\ "EOXError" \in DOMAIN e =>
              \/ DOMAIN e = {"EOXError"}
              \/ /\ DOMAIN e = Keys
                 /\ \A k \in Keys : e[k].value # Str("")}

Records == UNION {[1..n -> Entries] : n \in 0..MaxEntries}

\* the body of a 2xx answer: a dict with or without the 'EOXRecord' key
Payload(rec) == [k \in {"EOXRecord"} |-> rec]
EmptyPayload == [k \in {} |-> <<>>]

Response(st, body) == [status |-> st, json |-> body]

\* the record of the end-to-end scenario
ScenarioRecord ==
    <<[k \in {"LastDateOfSupport", "EndOfSWMaintenanceReleases"} |->
         IF k = "LastDateOfSupport" THEN Item(Triple("-", 2025, 1, 1))
         ELSE Item(Triple("-", 2026, 6, 15))]>>

\* a failed call has no body (connection error) or a body the program must
\* not use (non-2xx status)
AllResponses ==
    {Response("ConnectionError", EmptyPayload), Response("HTTPError", EmptyPayload),
     Response("HTTPError", Payload(ScenarioRecord)), Response("OK", EmptyPayload)}
    \cup {Response("OK", Payload(r)) : r \in Records}

\* what the API may answer to one call: anything, or (when the run is against
\* a server that treats every identifier alike) that one answer
Responses == IF api.fixed THEN {api.resp} ELSE AllResponses

AnyApi == [fixed |-> FALSE, resp |-> Response("OK", EmptyPayload)]
FixedApi(r) == [fixed |-> TRUE, resp |-> r]

\* a get_request that checks the connection only, not the status
get_request_failed_unchecked_status(resp) == resp.status = "ConnectionError"

\* get_request: False on a connection error or a non-2xx status, else the body
get_request_failed(resp) == resp.status # "OK"

get_request(resp) == IF get_request_failed(resp) THEN False ELSE resp.json

\* a scan that stops after the first entry of the list
error_present_first_only(eox_data) ==
    Len(eox_data) >= 1 /\ "EOXError" \in DOMAIN eox_data[1]

\* the scan for 'EOXError' over every entry of the list
error_present(eox_data) ==
    \E n \in 1..Len(eox_data) : "EOXError" \in DOMAIN eox_data[n]

\* an eox_value that goes on to the next entry when the key is missing
eox_value_searching(entry, list) ==
    IF Len(list) = 0 THEN None
    ELSE IF \A n \in 1..Len(list) : entry \notin DOMAIN list[n] THEN False
    ELSE list[CHOOSE n \in 1..Len(list) :
                 /\ entry \in DOMAIN list[n]
                 /\ \A m \in 1..(n - 1) : entry \notin DOMAIN list[m]][entry].value

\* eox_value: the loop returns in its first iteration; an empty list falls
\* through and yields None
eox_value(entry, list) ==
    IF Len(list) = 0 THEN None
    ELSE IF entry \notin DOMAIN list[1] THEN False
    ELSE list[1][entry].value

(* ------------------------------ the workbook --------------------------- *)
HwTitles == <<"PartNumber", "HWEndofSupportDate", "HWEndofLifeDate", "Updated">>
SwTitles == <<"oslevel", "SWEndofSupportDate", "Updated", "Comments">>
OtherTitles == <<"Site", "Contact", "Phone", "Notes">>

NoTitle == "none"

TitleRow(titles, missing) ==
    [c \in 1..Len(titles) |-> IF titles[c] = missing THEN Str("Column1") ELSE Str(titles[c])]

DataRow(key) == <<key, Str("01/01/2020"), Str("01/01/2021"), DateTime(0)>>

Sheet(titles, missing, keys) ==
    <<TitleRow(titles, missing)>> \o [r \in 1..Len(keys) |-> DataRow(keys[r])]

found(sheet, title) == \E c \in 1..Len(sheet[1]) : sheet[1][c] = Str(title)

\* find_column: index of the first column whose title cell matches, 0 where
\* the program prints the message and calls sys.exit()
find_column(sheet, title) ==
    IF found(sheet, title)
    THEN CHOOSE c \in 1..Len(sheet[1]) :
            /\ sheet[1][c] = Str(title)
            /\ \A d \in 1..(c - 1) : sheet[1][d] # Str(title)
    ELSE 0

SetCell(w, name, row, column, value) == [w EXCEPT ![name][row][column] = value]

(* ------------------------------- Init ---------------------------------- *)
HwKey == Str("ABC-123")
HwKey2 == Str("XYZ-789")
SwKey == Str("15.2(4)M")
SwKey2 == Str("12.4(24)T")

Token(name, exp) == [access_token |-> name, token_type |-> "Bearer", expires_at |-> exp]

\* lifetime of a freshly granted token
Lifetime == 1

ValidTokenFile == <<Token("persisted", MaxTime + 1)>>

InitCommon ==
    /\ pc = "check_token"
    /\ token = <<>>
    /\ token_file0 = token_file
    /\ tokenRequests = 0
    /\ tokenWrites = 0
    /\ wb0 = wb
    /\ s = 1
    /\ i = 1
    /\ count = 0
    /\ updated_products = <<>>
    /\ columns = [key |-> 0, ldos |-> 0, eol |-> 0]
    /\ reports = <<>>
    /\ apiCalls = [n \in {hw_sheet_name, sw_sheet_name} |-> 0]
    /\ usable = [n \in {hw_sheet_name, sw_sheet_name} |-> 0]
    /\ saves = 0

\* a hardware sheet of MaxRows data rows, any key cell blank or filled, at
\* most one expected title missing, against an API that may answer anything
InitHw ==
    /\ sheetnames = <<hw_sheet_name, "Sites">>
    /\ \E keys \in [1..MaxRows -> {None, HwKey}] :
       \E missing \in {NoTitle, "PartNumber", "HWEndofSupportDate", "HWEndofLifeDate", "Updated"} :
          wb = [n \in {hw_sheet_name, "Sites"} |->
                   IF n = hw_sheet_name THEN Sheet(HwTitles, missing, keys)
                   ELSE Sheet(OtherTitles, NoTitle, <<Str("Leeds")>>)]
    /\ api = AnyApi
    /\ now = 1
    /\ token_file = ValidTokenFile

InitSw ==
    /\ sheetnames = <<"Sites", sw_sheet_name>>
    /\ \E keys \in [1..MaxRows -> {None, SwKey}] :
       \E missing \in {NoTitle, "oslevel", "SWEndofSupportDate", "Updated"} :
          wb = [n \in {sw_sheet_name, "Sites"} |->
                   IF n = sw_sheet_name THEN Sheet(SwTitles, missing, keys)
                   ELSE Sheet(OtherTitles, NoTitle, <<Str("Leeds")>>)]
    /\ api = AnyApi
    /\ now = 1
    /\ token_file = ValidTokenFile

BothSheets ==
    [n \in {hw_sheet_name, sw_sheet_name} |->
        IF n = hw_sheet_name THEN Sheet(HwTitles, NoTitle, <<HwKey, HwKey2>>)
        ELSE Sheet(SwTitles, NoTitle, <<SwKey, SwKey2>>)]

\* both sheets with two products each, the token file absent or holding a
\* token of any expiry, the API answering with the scenario record
InitToken ==
    /\ sheetnames = <<sw_sheet_name, hw_sheet_name>>
    /\ wb = BothSheets
    /\ api = FixedApi(Response("OK", Payload(ScenarioRecord)))
    /\ now \in 1..MaxTime
    /\ token_file \in {<<>>} \cup {<<Token("persisted", e)>> : e \in 0..MaxTime}

\* both sheets with two products each, against a server that answers every
\* call alike, with any one answer
InitFixed ==
    /\ sheetnames = <<hw_sheet_name, sw_sheet_name>>
    /\ wb = BothSheets
    /\ api \in {FixedApi(r) : r \in AllResponses}
    /\ now = 1
    /\ token_file = ValidTokenFile

Init == (InitHw \/ InitSw \/ InitToken \/ InitFixed) /\ InitCommon

\* a fatal path that prints its message and carries on to the save
sys_exit_returns == "save"

\* where the run stands after sys.exit(): the process has ended
sys_exit == "exit"

(* ----------------------------- check_token ----------------------------- *)
\* an expiry test that keeps a token expiring at this very instant
expired_strictly(tok, t) == tok.expires_at < t

\* the test of line 148: the persisted token has expired
expired(tok, t) == tok.expires_at <= t

\* get_token followed by save_token; a ConnectionError on the token request
\* and an IOError on opening the token file both end in sys.exit()
request_new_token ==
    /\ tokenRequests' = tokenRequests + 1
    /\ \E fetched \in BOOLEAN :
          IF ~fetched
          THEN /\ pc' = sys_exit
               /\ UNCHANGED <<token, token_file, tokenWrites>>
          ELSE \E opened \in BOOLEAN :
                  IF ~opened
                  THEN /\ pc' = sys_exit
                       /\ UNCHANGED <<token, token_file, tokenWrites>>
                  ELSE /\ token_file' = <<Token("granted", now + Lifetime)>>
                       /\ tokenWrites' = tokenWrites + 1
                       /\ token' = <<Token("granted", now + Lifetime)>>
                       /\ pc' = "open_workbook"

check_token ==
    /\ pc = "check_token"
    /\ IF token_file = <<>>
       THEN request_new_token
       ELSE IF expired(token_file[1], now)
            THEN request_new_token
            ELSE /\ token' = token_file
                 /\ pc' = "open_workbook"
                 /\ UNCHANGED <<token_file, tokenRequests, tokenWrites>>
    /\ UNCHANGED <<now, token_file0, sheetnames, wb, wb0, s, i, count, updated_products, columns,
                   reports, apiCalls, usable, api, saves>>

(* ------------------------------ the driver ----------------------------- *)
\* openpyxl.load_workbook: an IOError ends in sys.exit()
open_workbook ==
    /\ pc = "open_workbook"
    /\ \E opened \in BOOLEAN : pc' = IF opened THEN "sheets" ELSE sys_exit
    /\ UNCHANGED <<now, token_file, token_file0, token, tokenRequests, tokenWrites, sheetnames, wb,
                   wb0, s, i, count, updated_products, columns, reports, apiCalls,
                   usable, api, saves>>

\* the head of hw_process: the three find_column calls, then the loop's locals
hw_process ==
    LET current_sheet == wb[sheetnames[s]]
    IN  IF /\ found(current_sheet, "PartNumber")
           /\ found(current_sheet, "HWEndofSupportDate")
           /\ found(current_sheet, "HWEndofLifeDate")
        THEN /\ columns' = [key |-> find_column(current_sheet, "PartNumber"),
                            ldos |-> find_column(current_sheet, "HWEndofSupportDate"),
                            eol |-> find_column(current_sheet, "HWEndofLifeDate")]
             /\ pc' = "hw_loop"
        ELSE /\ pc' = sys_exit
             /\ UNCHANGED columns

\* the head of sw_process
sw_process ==
    LET current_sheet == wb[sheetnames[s]]
    IN  IF /\ found(current_sheet, "oslevel")
           /\ found(current_sheet, "SWEndofSupportDate")
        THEN /\ columns' = [key |-> find_column(current_sheet, "oslevel"),
                            ldos |-> find_column(current_sheet, "SWEndofSupportDate"),
                            eol |-> 0]
             /\ pc' = "sw_loop"
        ELSE /\ pc' = sys_exit
             /\ UNCHANGED columns

\* one step of "for sheet in wb.sheetnames", or the fall through to the save
driver ==
    /\ pc = "sheets"
    /\ IF s > Len(sheetnames)
       THEN /\ pc' = "save"
            /\ UNCHANGED <<s, i, count, updated_products, columns, apiCalls, usable>>
       ELSE IF sheetnames[s] \in {hw_sheet_name, sw_sheet_name}
            THEN /\ IF sheetnames[s] = hw_sheet_name THEN hw_process ELSE sw_process
                 /\ i' = 1
                 /\ count' = 0
                 /\ updated_products' = <<>>
                 /\ apiCalls' = [apiCalls EXCEPT ![sheetnames[s]] = 0]
                 /\ usable' = [usable EXCEPT ![sheetnames[s]] = 0]
                 /\ UNCHANGED s
            ELSE /\ s' = s + 1
                 /\ UNCHANGED <<pc, i, count, updated_products, columns, apiCalls, usable>>
    /\ UNCHANGED <<now, token_file, token_file0, token, tokenRequests, tokenWrites, sheetnames, wb,
                   wb0, reports, api, saves>>

(* ----------------------------- hw_process ------------------------------ *)
\* a cap test that is off by one
scan_limit_exceeded(n) == n > scan_limit

\* the test of line 262
scan_limit_reached(n) == n >= scan_limit

\* the test of line 319
hw_timestamp_due(ldos_date, eol_date) == ~(ldos_date = False /\ eol_date = False)

\* lines 300-328 for a record without error marker
hw_update(name, row, product_id, eox_data) ==
    LET raw_ldos == eox_value("LastDateOfSupport", eox_data)
        raw_eol == eox_value("EndOfSWMaintenanceReleases", eox_data)
    IN  IF format_date_raises(raw_ldos) \/ format_date_raises(raw_eol)
        THEN /\ pc' = "crashed"
             /\ UNCHANGED <<wb, updated_products>>
        ELSE LET ldos_date == format_date(raw_ldos)
                 eol_date == format_date(raw_eol)
                 wb1 == IF Truthy(ldos_date)
                        THEN SetCell(wb, name, row, columns.ldos, ldos_date) ELSE wb
                 ldos_out == IF Truthy(ldos_date) THEN ldos_date ELSE Str("Not available")
                 wb2 == IF Truthy(eol_date)
                        THEN SetCell(wb1, name, row, columns.eol, eol_date) ELSE wb1
                 eol_out == IF Truthy(eol_date) THEN eol_date ELSE False
             IN  IF hw_timestamp_due(ldos_out, eol_out)
                 THEN IF found(wb2[name], "Updated")
                      THEN /\ wb' = SetCell(wb2, name, row,
                                            find_column(wb2[name], "Updated"), DateTime(now))
                           /\ updated_products' =
                                 Append(updated_products, <<product_id, ldos_out, eol_out>>)
                           /\ UNCHANGED pc
                      ELSE /\ wb' = wb2
                           /\ pc' = sys_exit
                           /\ UNCHANGED updated_products
                 ELSE /\ wb' = wb2
                      /\ updated_products' =
                            Append(updated_products, <<product_id, ldos_out, eol_out>>)
                      /\ UNCHANGED pc

\* one iteration of the loop over the cells of the 'PartNumber' column, or
\* its exhaustion
hw_loop ==
    /\ pc = "hw_loop"
    /\ LET name == sheetnames[s]
           column_values == [r \in 1..Len(wb[name]) |-> wb[name][r][columns.key]]
       IN  IF i > Len(column_values)
           THEN /\ pc' = "hw_report"
                /\ UNCHANGED <<wb, i, count, updated_products, apiCalls, usable>>
           ELSE IF i = 1
           THEN /\ i' = i + 1
                /\ UNCHANGED <<pc, wb, count, updated_products, apiCalls, usable>>
           ELSE IF scan_limit_reached(count)
           THEN /\ pc' = "hw_report"
                /\ UNCHANGED <<wb, i, count, updated_products, apiCalls, usable>>
           ELSE IF ~Truthy(column_values[i])
           THEN /\ i' = i + 1
                /\ UNCHANGED <<pc, wb, count, updated_products, apiCalls, usable>>
           ELSE /\ count' = count + 1
                /\ i' = i + 1
                /\ apiCalls' = [apiCalls EXCEPT ![name] = @ + 1]
                /\ \E resp \in Responses :
                      LET product_data == get_request(resp)
                      IN  IF product_data = False
                          THEN UNCHANGED <<pc, wb, updated_products, usable>>
                          ELSE IF "EOXRecord" \notin DOMAIN product_data
                          THEN UNCHANGED <<pc, wb, updated_products, usable>>
                          ELSE IF error_present(product_data["EOXRecord"])
                          THEN UNCHANGED <<pc, wb, updated_products, usable>>
                          ELSE /\ usable' = [usable EXCEPT ![name] = @ + 1]
                               /\ hw_update(name, i, column_values[i],
                                            product_data["EOXRecord"])
    /\ UNCHANGED <<now, token_file, token_file0, token, tokenRequests, tokenWrites, sheetnames, wb0,
                   s, columns, reports, api, saves>>

\* create_report: an IOError on opening the report file ends in sys.exit()
create_report(sheet_name, scanned_count, updated_count, list_of_updates) ==
    \E opened \in BOOLEAN :
        IF opened
        THEN /\ reports' = Append(reports, [sheet_name |-> sheet_name,
                                            scanned_count |-> scanned_count,
                                            updated_count |-> updated_count,
                                            list_of_updates |-> list_of_updates])
             /\ pc' = "sheets"
             /\ s' = s + 1
        ELSE /\ pc' = sys_exit
             /\ UNCHANGED <<reports, s>>

hw_report ==
    /\ pc = "hw_report"
    /\ create_report(sheetnames[s], count, Len(updated_products), updated_products)
    /\ UNCHANGED <<now, token_file, token_file0, token, tokenRequests, tokenWrites, sheetnames, wb,
                   wb0, i, count, updated_products, columns, apiCalls, usable, api, saves>>

(* ----------------------------- sw_process ------------------------------ *)
\* the test of line 407
sw_timestamp_due(ldos_date) == ~(ldos_date = False)

\* lines 396-416 for a record without error marker
sw_update(name, row, software_id, eox) ==
    LET raw_ldos == eox_value("LastDateOfSupport", eox)
    IN  IF format_date_raises(raw_ldos)
        THEN /\ pc' = "crashed"
             /\ UNCHANGED <<wb, updated_products>>
        ELSE LET ldos_date == format_date(raw_ldos)
                 wb1 == IF Truthy(ldos_date)
                        THEN SetCell(wb, name, row, columns.ldos, ldos_date) ELSE wb
                 ldos_out == IF Truthy(ldos_date) THEN ldos_date ELSE False
             IN  IF sw_timestamp_due(ldos_out)
                 THEN IF found(wb1[name], "Updated")
                      THEN /\ wb' = SetCell(wb1, name, row,
                                            find_column(wb1[name], "Updated"), DateTime(now))
                           /\ updated_products' =
                                 Append(updated_products, <<software_id, ldos_out>>)
                           /\ UNCHANGED pc
                      ELSE /\ wb' = wb1
                           /\ pc' = sys_exit
                           /\ UNCHANGED updated_products
                 ELSE /\ wb' = wb1
                      /\ updated_products' =
                            Append(updated_products, <<software_id, ldos_out>>)
                      /\ UNCHANGED pc

sw_loop ==
    /\ pc = "sw_loop"
    /\ LET name == sheetnames[s]
           column_values == [r \in 1..Len(wb[name]) |-> wb[name][r][columns.key]]
       IN  IF i > Len(column_values)
           THEN /\ pc' = "sw_report"
                /\ UNCHANGED <<wb, i, count, updated_products, apiCalls, usable>>
           ELSE IF i = 1
           THEN /\ i' = i + 1
                /\ UNCHANGED <<pc, wb, count, updated_products, apiCalls, usable>>
           ELSE IF scan_limit_reached(count)
           THEN /\ pc' = "sw_report"
                /\ UNCHANGED <<wb, i, count, updated_products, apiCalls, usable>>
           ELSE IF ~Truthy(column_values[i])
           THEN /\ i' = i + 1
                /\ UNCHANGED <<pc, wb, count, updated_products, apiCalls, usable>>
           ELSE /\ count' = count + 1
                /\ i' = i + 1
                /\ apiCalls' = [apiCalls EXCEPT ![name] = @ + 1]
                /\ \E resp \in Responses :
                      LET product_data == get_request(resp)
                      IN  IF product_data = False
                          THEN UNCHANGED <<pc, wb, updated_products, usable>>
                          ELSE IF "EOXRecord" \notin DOMAIN product_data
                          THEN UNCHANGED <<pc, wb, updated_products, usable>>
                          ELSE IF error_present(product_data["EOXRecord"])
                          THEN UNCHANGED <<pc, wb, updated_products, usable>>
                          ELSE /\ usable' = [usable EXCEPT ![name] = @ + 1]
                               /\ sw_update(name, i, column_values[i],
                                            product_data["EOXRecord"])
    /\ UNCHANGED <<now, token_file, token_file0, token, tokenRequests, tokenWrites, sheetnames, wb0,
                   s, columns, reports, api, saves>>

sw_report ==
    /\ pc = "sw_report"
    /\ create_report(sheetnames[s], count, Len(updated_products), updated_products)
    /\ UNCHANGED <<now, token_file, token_file0, token, tokenRequests, tokenWrites, sheetnames, wb,
                   wb0, i, count, updated_products, columns, apiCalls, usable, api, saves>>

(* ------------------------------- the save ------------------------------ *)
\* a save whose PermissionError is not caught
permission_error_uncaught == "crashed"

\* where the run stands after wb.save raised PermissionError: the except
\* clause reports it and the script goes on to its end
after_permission_error == "done"

\* wb.save inside try/except PermissionError, then the runtime report
save_workbook ==
    /\ pc = "save"
    /\ \E permitted \in BOOLEAN :
          IF permitted
          THEN /\ saves' = saves + 1
               /\ pc' = "done"
          ELSE /\ UNCHANGED saves
               /\ pc' = after_permission_error
    /\ UNCHANGED <<now, token_file, token_file0, token, tokenRequests, tokenWrites, sheetnames, wb,
                   wb0, s, i, count, updated_products, columns, reports, apiCalls,
                   usable, api>>

Next ==
    \/ check_token
    \/ open_workbook
    \/ driver
    \/ hw_loop
    \/ hw_report
    \/ sw_loop
    \/ sw_report
    \/ save_workbook

Spec == Init /\ [][Next]_vars

(* ======================= properties of the program ===================== *)
\* the sheets the driver runs an update loop on
Sections == {hw_sheet_name, sw_sheet_name} \cap DOMAIN wb

\* the titles of the date columns of a section
DateTitles(n) ==
    IF n = hw_sheet_name THEN {"HWEndofSupportDate", "HWEndofLifeDate"}
    ELSE {"SWEndofSupportDate"}

KeyTitle(n) == IF n = hw_sheet_name THEN "PartNumber" ELSE "oslevel"

\* the cell of row r under the given title changed during the run
Changed(n, r, title) ==
    /\ found(wb0[n], title)
    /\ wb[n][r][find_column(wb0[n], title)] # wb0[n][r][find_column(wb0[n], title)]

\* an EOXRecord list holds an entry with the 'EOXError' key
HasMarker(rec) == \E k \in 1..Len(rec) : "EOXError" \in DOMAIN rec[k]

\* the fixed answer of the server is a record list (2xx, 'EOXRecord' present)
FixedRecord == api.fixed /\ api.resp.status = "OK" /\ "EOXRecord" \in DOMAIN api.resp.json

TheRecord == api.resp.json["EOXRecord"]

\* the reports written so far for section n
ReportsOf(n) == {k \in 1..Len(reports) : reports[k].sheet_name = n}

\* C1: in both loops a data row's 'Updated' cell is written if and only if
\* one of the row's date cells received a non-empty value in this run
C1_UpdatedIffDateWritten ==
    \A n \in Sections : \A r \in 2..Len(wb[n]) :
        found(wb0[n], "Updated") =>
            (Changed(n, r, "Updated") <=> \E d \in DateTitles(n) : Changed(n, r, d))

\* C2: when the record of every identifier holds an error marker at some
\* position, no cell changes, no audit entry is made, and each report counts
\* the identifiers as scanned and none as updated
C2_ErrorRecordDiscarded ==
    (FixedRecord /\ HasMarker(TheRecord)) =>
        /\ wb = wb0
        /\ updated_products = <<>>
        /\ pc # "crashed"
        /\ \A k \in 1..Len(reports) :
              /\ reports[k].scanned_count = 2
              /\ reports[k].updated_count = 0
              /\ reports[k].list_of_updates = <<>>

\* an error marker in the last entry, after an entry that carries both dates,
\* and both sections reported
C2_Witness ==
    /\ FixedRecord
    /\ Len(TheRecord) = MaxEntries
    /\ "EOXError" \in DOMAIN TheRecord[MaxEntries]
    /\ DOMAIN TheRecord[1] = {"LastDateOfSupport", "EndOfSWMaintenanceReleases"}
    /\ \A k \in DOMAIN TheRecord[1] : TheRecord[1][k].value # Str("")
    /\ Len(reports) = 2
    /\ pc = "done"

\* C3: the title row and every data row whose key cell is blank keep all
\* their cells, and the scan count and the number of API calls of a section
\* equal the number of filled key cells among the data rows visited
C3_UnprocessedRowsUntouched ==
    /\ \A n \in DOMAIN wb :
          /\ wb[n][1] = wb0[n][1]
          /\ Len(wb[n]) = Len(wb0[n])
          /\ \A r \in 2..Len(wb[n]) :
                wb0[n][r][1] = None => wb[n][r] = wb0[n][r]
    /\ pc \in {"hw_loop", "sw_loop", "hw_report", "sw_report"} =>
          LET n == sheetnames[s]
              filled == {r \in 2..(i - 1) : wb0[n][r][columns.key] # None}
          IN  /\ count = Cardinality(filled)
              /\ apiCalls[n] = Cardinality(filled)

\* a section with a blank key cell between two filled ones, both of which
\* were processed and changed
C3_Witness ==
    /\ pc = "hw_report"
    /\ wb0[hw_sheet_name][3][1] = None
    /\ wb[hw_sheet_name][2] # wb0[hw_sheet_name][2]
    /\ wb[hw_sheet_name][4] # wb0[hw_sheet_name][4]
    /\ count = 2

\* the field is in no entry of the fixed record
AbsentField(f) == \A k \in 1..Len(TheRecord) : f \notin DOMAIN TheRecord[k]

\* the field is in the first entry of the fixed record with the value ''
EmptyField(f) ==
    /\ Len(TheRecord) >= 1
    /\ f \in DOMAIN TheRecord[1]
    /\ TheRecord[1][f].value = Str("")

\* the fields the loop of a section reads, each with the title of the column
\* it is written to and its position in the audit entry
WantedFields(n) ==
    IF n = hw_sheet_name
    THEN {<<"LastDateOfSupport", "HWEndofSupportDate", 2>>,
          <<"EndOfSWMaintenanceReleases", "HWEndofLifeDate", 3>>}
    ELSE {<<"LastDateOfSupport", "SWEndofSupportDate", 2>>}

\* the value an audit entry carries for an empty field
Sentinel(n, f) ==
    IF n = hw_sheet_name /\ f = "LastDateOfSupport" THEN Str("Not available") ELSE False

\* the audit entries of section n: those of its report, and those gathered
\* so far while its loop runs
AuditsOf(n) ==
    UNION {{reports[k].list_of_updates[j] : j \in 1..Len(reports[k].list_of_updates)} :
              k \in ReportsOf(n)}
    \cup (IF /\ pc \notin {"sheets", "save", "done"}
              /\ s <= Len(sheetnames)
              /\ sheetnames[s] = n
          THEN {updated_products[j] : j \in 1..Len(updated_products)} ELSE {})

\* C4: a record without error marker in which a wanted date field is empty
\* or absent does not make the run fail; the field's cell keeps its value and
\* the audit entries carry the sentinel for it
C4_EmptyOrAbsentFieldTolerated ==
    (FixedRecord /\ ~HasMarker(TheRecord)) =>
        \A n \in Sections : \A w \in WantedFields(n) :
            (AbsentField(w[1]) \/ EmptyField(w[1])) =>
                /\ pc # "crashed"
                /\ \A r \in 2..Len(wb[n]) : ~Changed(n, r, w[2])
                /\ \A e \in AuditsOf(n) : e[w[3]] = Sentinel(n, w[1])

\* the fixed answer of the server is one of the per-item failures
FixedFailure ==
    /\ api.fixed
    /\ \/ api.resp.status \in {"ConnectionError", "HTTPError"}
       \/ "EOXRecord" \notin DOMAIN api.resp.json
       \/ HasMarker(api.resp.json["EOXRecord"])

\* C5: a per-item failure (connection error, non-2xx status, no 'EOXRecord'
\* key, error marker) changes no cell and adds no audit entry, never ends the
\* loop or the run, and the loop goes on to the next row
C5_FailureSkipsOneIdentifier ==
    /\ [](FixedFailure =>
            /\ wb = wb0
            /\ updated_products = <<>>
            /\ pc # "crashed"
            /\ \A k \in 1..Len(reports) :
                  reports[k].scanned_count = 2 /\ reports[k].updated_count = 0)
    /\ [][(FixedFailure /\ pc \in {"hw_loop", "sw_loop"} /\ i \in 2..3)
             => (pc' = pc /\ i' = i + 1 /\ count' = count + 1)]_vars

\* every call failed, both identifiers of both sections were scanned and the
\* run reached its end
C5_Witness ==
    /\ FixedFailure
    /\ api.resp = Response("HTTPError", Payload(ScenarioRecord))
    /\ pc = "done"
    /\ Len(reports) = 2
    /\ apiCalls[hw_sheet_name] = 2
    /\ apiCalls[sw_sheet_name] = 2

\* a title that the head of the section's routine looks up is missing
MissingAtHead(n) == \E title \in {KeyTitle(n)} \cup DateTitles(n) : ~found(wb0[n], title)

\* C6 as stated: a section that lacks any expected title, 'Updated' included,
\* never lets the run reach the save
C6_AnyMissingHeaderFatal ==
    \A n \in Sections :
        (MissingAtHead(n) \/ ~found(wb0[n], "Updated")) =>
            (pc \notin {"save", "done"} /\ saves = 0)

\* C6 amended: a missing key or date title ends the run at the head of the
\* section, before any call or edit, and nothing is saved; a missing 'Updated'
\* title ends the run at the first row that is to be stamped, so a run that
\* goes on past such a section has written no cell of it and stamped no row
C6_MissingHeaderFatalWhenLookedUp ==
    \A n \in Sections :
        /\ MissingAtHead(n) =>
              /\ pc \notin {"hw_loop", "hw_report", "sw_loop", "sw_report", "save", "done"}
              /\ saves = 0
              /\ wb = wb0
              /\ apiCalls[n] = 0
              /\ ReportsOf(n) = {}
        /\ ~found(wb0[n], "Updated") =>
              /\ pc = "exit" => saves = 0
              /\ pc # "exit" =>
                    /\ wb[n] = wb0[n]
                    /\ n = hw_sheet_name => AuditsOf(n) = {}
                    /\ n = sw_sheet_name => \A e \in AuditsOf(n) : e[2] = False

\* the hardware sheet has no 'Updated' title, a date cell was written and the
\* run ended in sys.exit() without a save
C6_Witness ==
    /\ hw_sheet_name \in Sections
    /\ ~found(wb0[hw_sheet_name], "Updated")
    /\ pc = "exit"
    /\ wb[hw_sheet_name][2][2] = Triple("/", 1, 1, 2025)
    /\ saves = 0

Min(x, y) == IF x <= y THEN x ELSE y

\* the filled key cells among the data rows of section n
FilledKeys(n) ==
    {r \in 2..Len(wb0[n]) : wb0[n][r][find_column(wb0[n], KeyTitle(n))] # None}

\* C7: in every report the updated count is the number of audit entries and
\* the number of usable records, the scanned count is the number of filled key
\* cells up to the scan cap, and one API call was made per scanned identifier
C7_ReportCounts ==
    \A k \in 1..Len(reports) :
        LET rep == reports[k]
        IN  /\ rep.updated_count = Len(rep.list_of_updates)
            /\ rep.updated_count = usable[rep.sheet_name]
            /\ rep.scanned_count = Min(scan_limit, Cardinality(FilledKeys(rep.sheet_name)))
            /\ rep.updated_count <= rep.scanned_count
            /\ rep.scanned_count <= scan_limit
            /\ apiCalls[rep.sheet_name] = rep.scanned_count

\* a report of a section with more filled key cells than the cap, cut at the
\* cap, with one identifier updated and one skipped
C7_Witness ==
    /\ Len(reports) = 1
    /\ Cardinality(FilledKeys(reports[1].sheet_name)) > scan_limit
    /\ reports[1].scanned_count = scan_limit
    /\ reports[1].updated_count = scan_limit - 1

C9_SavedOnceAtTheEnd ==
    /\ [](saves <= 1)
    /\ [](pc \in {"save", "done"} =>
            /\ token # <<>>
            /\ \A n \in Sections : ReportsOf(n) # {})
    /\ [](saves = 1 => pc = "done")
    /\ [](pc \in {"exit", "crashed"} => saves = 0)
    /\ [][pc = "save" => pc' = "done"]_vars

\* the run reached its end after a save that raised PermissionError
C9_Witness ==
    /\ pc = "done"
    /\ saves = 0
    /\ Len(reports) = 2
    /\ wb # wb0

\* the first entry of the fixed record holds the field
FirstHas(f) == f \in DOMAIN TheRecord[1]

\* the value of the field in the first entry, reformatted
FirstDate(f) == format_date(TheRecord[1][f].value)

\* C10: the cells written and the audit entries made for a record without
\* error marker are those of the first entry alone: a field the first entry
\* lacks is treated as absent whatever later entries hold, and a field it
\* holds decides the cell and the audit value
C10_FirstEntryDecides ==
    (FixedRecord /\ ~HasMarker(TheRecord) /\ Len(TheRecord) >= 1) =>
        \A n \in Sections : \A w \in WantedFields(n) :
            IF \E v \in WantedFields(n) : ~FirstHas(v[1])
            THEN wb[n] = wb0[n] /\ AuditsOf(n) = {}
            ELSE LET d == FirstDate(w[1])
                     col == find_column(wb0[n], w[2])
                 IN  /\ \A r \in 2..Len(wb[n]) :
                           wb[n][r][col] \in
                              {wb0[n][r][col]} \cup (IF d = Str("") THEN {} ELSE {d})
                     /\ \A e \in AuditsOf(n) :
                           e[w[3]] = IF d = Str("") THEN Sentinel(n, w[1]) ELSE d

\* a record of two entries: the first holds a support-end date and an empty
\* end-of-life value, the second an end-of-life date; the hardware row got the
\* first entry's date and kept its end-of-life cell
C10_Witness ==
    /\ FixedRecord
    /\ Len(TheRecord) >= 2
    /\ ~HasMarker(TheRecord)
    /\ DOMAIN TheRecord[1] = {"LastDateOfSupport", "EndOfSWMaintenanceReleases"}
    /\ TheRecord[1]["EndOfSWMaintenanceReleases"].value = Str("")
    /\ "EndOfSWMaintenanceReleases" \in DOMAIN TheRecord[2]
    /\ TheRecord[2]["EndOfSWMaintenanceReleases"].value # Str("")
    /\ pc = "done"
    /\ wb[hw_sheet_name][2][2] = Triple("/", 1, 1, 2025)
    /\ wb[hw_sheet_name][2][3] = wb0[hw_sheet_name][2][3]

====
